---- MODULE Spec2Model ----
(***************************************************************************)
(* libgp: the GaussianProcess regression engine of src/src/gp.cc and the   *)
(* CovarianceFunction interface of src/unnamed/part_000 (cov.h).           *)
(*                                                                         *)
(* Reals are modelled exactly, as normalised fractions <<num, den>>.  The  *)
(* Cholesky factor of Eigen::LLT is kept in a square-root-free form: the   *)
(* entry (i, j) of a factored column j holds c with L(i, j) = c/sqrt(d_j), *)
(* d_j the j-th pivot, which is the diagonal entry (j, j) itself.           *)
(***************************************************************************)
EXTENDS Integers, Sequences, FiniteSets, TLC

\* ------------------------------------------------------------- bounds
MaxSamples == 2        \* samples one engine holds at most

Coords == {0, 1}       \* coordinates of input vectors
Targets == {1}         \* target values
HyperVals == {0, 1}    \* log-hyperparameter values
InputDims == {1}    \* input dimensionalities an engine is built with

\* ------------------------------------------------------------- exact reals
Abs(a) == IF a < 0 THEN -a ELSE a

RECURSIVE Gcd(_, _)
Gcd(a, b) == IF b = 0 THEN a ELSE Gcd(b, a % b)

\* the fraction n/d in lowest terms with a positive denominator (d # 0)
Rat(n, d) ==
  LET g == Gcd(Abs(n), Abs(d))
      s == IF d < 0 THEN -1 ELSE 1
  IN  << (s * n) \div g, (s * d) \div g >>

RInt(k) == << k, 1 >>
RAdd(p, q) == Rat(p[1] * q[2] + q[1] * p[2], p[2] * q[2])
RSub(p, q) == Rat(p[1] * q[2] - q[1] * p[2], p[2] * q[2])
RMul(p, q) == Rat(p[1] * q[1], p[2] * q[2])
RDiv(p, q) == Rat(p[1] * q[2], p[2] * q[1])
RPositive(p) == p[1] > 0

RECURSIVE RSum(_)
RSum(s) == IF s = << >> THEN RInt(0) ELSE RAdd(Head(s), RSum(Tail(s)))

RECURSIVE ISum(_)
ISum(s) == IF s = << >> THEN 0 ELSE Head(s) + ISum(Tail(s))

RECURSIVE Pow2(_)
Pow2(k) == IF k <= 0 THEN 1 ELSE 2 * Pow2(k - 1)

\* ------------------------------------------------------------- covariance function
\* The concrete kernels are not part of the sources at hand; KernelName stands
\* for one kernel with two log-hyperparameters: a scaled linear-plus-bias term
\* and a noise term on identical inputs.  It is symmetric and deterministic.
KernelName == "CovSum"

ParamDim(kernel) == IF kernel = KernelName THEN 2 ELSE 0

ZeroHyper(kernel) == [i \in 1..ParamDim(kernel) |-> 0]

VecDot(a, b) == ISum([i \in 1..Len(a) |-> a[i] * b[i]])

\* covf->get(x1, x2) under the log-hyperparameters h
CovGet(h, x1, x2) ==
  Pow2(h[1]) * (1 + VecDot(x1, x2)) + h[2] * (IF x1 = x2 THEN 1 ELSE 0)

\* CovarianceFunction::set_loghyper: the new vector, or the old one on a
\* length mismatch (the call then returns false)
SetLoghyper(kernel, h, p) == IF Len(p) = ParamDim(kernel) THEN p ELSE h

SetLoghyperOk(kernel, p) == Len(p) = ParamDim(kernel)

\* ------------------------------------------------------------- raw arrays
\* What copying n elements out of a caller's array a yields: the elements the
\* array holds, and for an index past its end (an out-of-bounds read) any value.
ReadArray(a, n, vals) ==
  { v \in [1..n -> vals] : \A i \in 1..n : i <= Len(a) => v[i] = a[i] }

\* Pattern(input_dim); set_input(x); set_target(y)
NewPattern(x, y, dim) == { [x |-> v, y |-> y] : v \in ReadArray(x, dim, Coords) }

\* ------------------------------------------------------------- linear algebra
\* lower triangle of the kernel matrix: row j holds K(j, i) for i <= j
GramLower(ss, h) ==
  [j \in 1..Len(ss) |-> [i \in 1..j |-> RInt(CovGet(h, ss[j].x, ss[i].x))]]

\* the loops as they would be with the inner one started at row 0
RECURSIVE FillFromFull(_, _)
FillFromFull(i, n) ==
  IF i > n THEN << >>
  ELSE [k \in 1..n |-> << k, i >>] \o FillFromFull(i + 1, n)

\* the loops of lines 95-98 from column i on: the entries K(j, i) written,
\* as << row, column >>, in the order of the writes
RECURSIVE FillFrom(_, _)
FillFrom(i, n) ==
  IF i > n THEN << >>
  ELSE [k \in 1..(n - i + 1) |-> << i + k - 1, i >>] \o FillFrom(i + 1, n)

FillOrder(n) == FillFrom(1, n)

\* alpha(i) = sampleset[i]->y
TargetVec(ss) == [i \in 1..Len(ss) |-> RInt(ss[i].y)]

\* number of covf->get calls of one fill of the lower triangle
GramEvals(n) == Len(FillOrder(n))

\* Eigen's in-place LLT, column k onwards: the pivot x = m(k,k) - |row k|^2;
\* a pivot <= 0 stops the factorization with columns k.. left as they were.
RECURSIVE LltFrom(_, _)
LltFrom(m, k) ==
  LET n == Len(m)
      x == RSub(m[k][k],
                RSum([j \in 1..(k - 1) |-> RDiv(RMul(m[k][j], m[k][j]), m[j][j])]))
      col(i) == RSub(m[i][k],
                RSum([l \in 1..(k - 1) |-> RDiv(RMul(m[i][l], m[k][l]), m[l][l])]))
  IN  IF k > n THEN [m |-> m, kf |-> n, info |-> "Success"]
      ELSE IF ~RPositive(x) THEN [m |-> m, kf |-> k - 1, info |-> "NumericalIssue"]
      ELSE LltFrom([i \in 1..n |-> [j \in 1..i |->
                      IF j # k THEN m[i][j] ELSE IF i = k THEN x ELSE col(i)]],
                   k + 1)

\* K.llt()
Llt(K) == LltFrom(K, 1)

\* a default-constructed Eigen::LLT
NoSolver == [m |-> << >>, kf |-> 0, info |-> "Uninitialized"]

\* forward substitution against matrixL(), before the division by the diagonal:
\* s holds the entries 1..Len(s) already computed
RECURSIVE ForwardFrom(_, _, _)
ForwardFrom(sol, b, s) ==
  IF Len(s) >= Len(b) THEN s
  ELSE LET i == Len(s) + 1
           si == RSub(b[i], RSum([j \in 1..(i - 1) |->
                                    RDiv(RMul(sol.m[i][j], s[j]), sol.m[j][j])]))
       IN  ForwardFrom(sol, b, Append(s, si))

ForwardS(sol, b) == ForwardFrom(sol, b, << >>)

\* backward substitution against matrixL().adjoint(): a holds the entries
\* n, n-1, .. already computed, the last one first
RECURSIVE BackwardFrom(_, _, _)
BackwardFrom(sol, z, a) ==
  IF Len(a) >= Len(z) THEN a
  ELSE LET n == Len(z)
           r == n - Len(a)
           ar == RDiv(RSub(z[r], RSum([j \in 1..Len(a) |->
                                         RMul(sol.m[r + j][r], a[j])])),
                      sol.m[r][r])
       IN  BackwardFrom(sol, z, << ar >> \o a)

\* solveInPlace as it would be if alpha were left as the targets
SolveNothing(sol, b) == b

\* solver.solveInPlace(b): L z = b, then L^T a = z
SolveInPlace(sol, b) ==
  LET s == ForwardS(sol, b)
      z == [i \in 1..Len(b) |->
              IF i <= sol.kf THEN s[i] ELSE RDiv(s[i], sol.m[i][i])]
  IN  BackwardFrom(sol, z, << >>)

\* kstar(i) = covf->get(x, sampleset[i]->x)
Kstar(x, ss, h) == [i \in 1..Len(ss) |-> RInt(CovGet(h, x, ss[i].x))]

\* kstar.dot(alpha)
Dot(a, b) == RSum([i \in 1..Len(a) |-> RMul(a[i], b[i])])

\* v = solver.matrixL().solve(kstar); v.dot(v)
SquaredNormOfSolve(sol, b) ==
  LET s == ForwardS(sol, b)
  IN  RSum([i \in 1..Len(b) |->
              IF i <= sol.kf THEN RDiv(RMul(s[i], s[i]), sol.m[i][i])
              ELSE RMul(RDiv(s[i], sol.m[i][i]), RDiv(s[i], sol.m[i][i]))])

\* ------------------------------------------------------------- state
VARIABLES
  status,      \* "live", or "exited" once the process has called exit()
  input_dim,   \* GaussianProcess::input_dim
  covf,        \* the kernel the factory created
  loghyper,    \* covf->loghyper
  sampleset,   \* GaussianProcess::sampleset, in insertion order
  update,      \* GaussianProcess::update, the dirty flag
  alpha,       \* GaussianProcess::alpha
  solver,      \* GaussianProcess::solver
  last,        \* the call made last: its arguments and what it handed back
  stale,       \* history: add_pattern or set_params ran since alpha was computed
  inflight     \* the calls two unsynchronized threads are in the middle of

vars ==
  << status, input_dim, covf, loghyper, sampleset, update, alpha, solver, last, stale,
     inflight >>

\* no call is in progress: every call so far ran from start to end on its own
Idle ==
  [ppc |-> "idle", px |-> << >>, pn |-> 0, kstar |-> << >>, mpc |-> "idle",
   overlap |-> FALSE]

\* what a read of undefined behaviour (a size mismatch in Eigen, an
\* uninitialized double) may produce
AnyReal == { RInt(0), RInt(1) }

NoCall ==
  [op |-> "none", arglen |-> 0, x |-> << >>, cv |-> FALSE, ret |-> RInt(0),
   var |-> "unset", raised |-> "none", rebuilt |-> FALSE, evals |-> 0,
   file |-> << >>, again |-> FALSE, pairs |-> << >>, targets |-> << >>, alen |-> 0]

Call(op) == [NoCall EXCEPT !.op = op]

\* ------------------------------------------------------------- construction
\* GaussianProcess(size_t input_dim, std::string covf_def): update is not set
CtorDim(dim, def, flag) ==
  /\ status = "live"
  /\ input_dim = dim
  /\ covf = def
  /\ loghyper = ZeroHyper(def)
  /\ sampleset = << >>
  /\ update = flag
  /\ alpha = << >>
  /\ solver = NoSolver
  /\ last = Call("ctor_dim")
  /\ stale = TRUE
  /\ inflight = Idle

\* A file is a sequence of lines, a line a sequence of tokens, a token a
\* sequence of characters: << >> is an empty line and a line whose first
\* character is "#" a comment.
Comment == << << "#" >> >>

IsSkipped(line) == line = << >> \/ line[1][1] = "#"

DigitChars == << "0", "1", "2", "3", "4", "5", "6", "7", "8", "9" >>

DigitVal(c) == CHOOSE d \in 0..9 : DigitChars[d + 1] = c

IsNumber(tok) ==
  /\ tok # << >>
  /\ \A i \in 1..Len(tok) : \E d \in 0..9 : DigitChars[d + 1] = tok[i]

RECURSIVE ParseNum(_)
ParseNum(tok) ==
  IF Len(tok) = 1 THEN DigitVal(tok[1])
  ELSE 10 * ParseNum(SubSeq(tok, 1, Len(tok) - 1)) + DigitVal(tok[Len(tok)])

\* ss >> v for the k-th extraction of a line: the number read, or, with no
\* number to read, whatever the uninitialized v held
Extract(line, k, vals) ==
  IF k <= Len(line) /\ IsNumber(line[k]) THEN { ParseNum(line[k]) } ELSE vals

\* the constructor's locals before the first line is read
LoaderStart ==
  [stage |-> 0, input_dim |-> 0, covf |-> "none", loghyper |-> << >>,
   sampleset |-> << >>]

\* one pass of the while loop of GaussianProcess(const char *), lines 44-68
LoadLine(st, line) ==
  IF IsSkipped(line) THEN { st }
  ELSE IF st.stage > 2 THEN
    { [st EXCEPT !.stage = st.stage + 1,
                 !.sampleset = Append(st.sampleset, [x |-> x, y |-> y])] :
        y \in Extract(line, 1, Targets),
        x \in { v \in [1..st.input_dim -> Coords] :
                  \A j \in 1..st.input_dim : v[j] \in Extract(line, 1 + j, Coords) } }
  ELSE IF st.stage = 0 THEN
    { [st EXCEPT !.stage = 1, !.input_dim = d] : d \in Extract(line, 1, InputDims) }
  ELSE IF st.stage = 1 THEN
    { [st EXCEPT !.stage = 2, !.covf = line[1][1],
                 !.loghyper = ZeroHyper(line[1][1])] }
  ELSE
    { [st EXCEPT !.stage = 3, !.loghyper = SetLoghyper(st.covf, st.loghyper, p)] :
        p \in { v \in [1..ParamDim(st.covf) -> HyperVals] :
                  \A j \in 1..ParamDim(st.covf) : v[j] \in Extract(line, j, HyperVals) } }

RECURSIVE LoadFrom(_, _)
LoadFrom(st, lines) ==
  IF lines = << >> THEN { st }
  ELSE UNION { LoadFrom(t, Tail(lines)) : t \in LoadLine(st, Head(lines)) }

\* GaussianProcess(const char * filename): fewer than three lines of content
\* end the process, otherwise update = 1
CtorFile(file) ==
  \E st \in LoadFrom(LoaderStart, file) :
    /\ status = (IF st.stage < 3 THEN "exited" ELSE "live")
    /\ input_dim = st.input_dim
    /\ covf = st.covf
    /\ loghyper = st.loghyper
    /\ sampleset = st.sampleset
    /\ update = TRUE
    /\ alpha = << >>
    /\ solver = NoSolver
    /\ last = [Call("ctor_file") EXCEPT !.file = file]
    /\ stale = TRUE
    /\ inflight = Idle

\* ------------------------------------------------------------- operations
\* add_pattern as it would be without its last line, update = 1
AddPatternKeepsFlag(x, y) ==
  /\ status = "live"
  /\ Len(sampleset) < MaxSamples
  /\ \E p \in NewPattern(x, y, input_dim) : sampleset' = Append(sampleset, p)
  /\ last' = [Call("add_pattern") EXCEPT !.arglen = Len(x)]
  /\ stale' = TRUE
  /\ UNCHANGED << status, input_dim, covf, loghyper, update, alpha, solver >>

\* add_pattern as it would be if a sample already in the set were not added
AddPatternMerges(x, y) ==
  /\ status = "live"
  /\ Len(sampleset) < MaxSamples
  /\ \E p \in NewPattern(x, y, input_dim) :
       sampleset' = IF \E i \in 1..Len(sampleset) : sampleset[i] = p
                    THEN sampleset ELSE Append(sampleset, p)
  /\ update' = TRUE
  /\ last' = [Call("add_pattern") EXCEPT !.arglen = Len(x)]
  /\ stale' = TRUE
  /\ UNCHANGED << status, input_dim, covf, loghyper, alpha, solver >>

\* void add_pattern(const double x[], double y)
AddPattern(x, y) ==
  /\ status = "live"
  /\ Len(sampleset) < MaxSamples
  /\ \E p \in NewPattern(x, y, input_dim) : sampleset' = Append(sampleset, p)
  /\ update' = TRUE
  /\ last' = [Call("add_pattern") EXCEPT !.arglen = Len(x)]
  /\ stale' = TRUE
  /\ UNCHANGED << status, input_dim, covf, loghyper, alpha, solver >>

\* set_params as it would be if it also dropped the training data
SetParamsClears(p) ==
  /\ status = "live"
  /\ \E param \in ReadArray(p, ParamDim(covf), HyperVals) :
       /\ loghyper' = SetLoghyper(covf, loghyper, param)
       /\ stale' = (stale \/ SetLoghyperOk(covf, param))
  /\ sampleset' = << >>
  /\ update' = TRUE
  /\ last' = [Call("set_params") EXCEPT !.arglen = Len(p)]
  /\ UNCHANGED << status, input_dim, covf, alpha, solver >>

\* void set_params(double p[])
SetParams(p) ==
  /\ status = "live"
  /\ \E param \in ReadArray(p, ParamDim(covf), HyperVals) :
       /\ loghyper' = SetLoghyper(covf, loghyper, param)
       /\ stale' = (stale \/ SetLoghyperOk(covf, param))
  /\ update' = TRUE
  /\ last' = [Call("set_params") EXCEPT !.arglen = Len(p)]
  /\ UNCHANGED << status, input_dim, covf, sampleset, alpha, solver >>

\* clear_sampleset as it would be if it marked the cache outdated
ClearSamplesetSetsUpdate ==
  /\ status = "live"
  /\ sampleset' = << >>
  /\ update' = TRUE
  /\ last' = Call("clear_sampleset")
  /\ UNCHANGED << status, input_dim, covf, loghyper, alpha, solver, stale >>

\* void clear_sampleset()
ClearSampleset ==
  /\ status = "live"
  /\ sampleset' = << >>
  /\ last' = Call("clear_sampleset")
  /\ UNCHANGED << status, input_dim, covf, loghyper, update, alpha, solver, stale >>

\* size_t get_sampleset_size()
GetSamplesetSize ==
  /\ status = "live"
  /\ last' = [Call("get_sampleset_size") EXCEPT !.ret = RInt(Len(sampleset))]
  /\ UNCHANGED << status, input_dim, covf, loghyper, sampleset, update, alpha, solver,
                  stale >>

\* size_t get_param_dim()
GetParamDim ==
  /\ status = "live"
  /\ last' = [Call("get_param_dim") EXCEPT !.ret = RInt(ParamDim(covf))]
  /\ UNCHANGED << status, input_dim, covf, loghyper, sampleset, update, alpha, solver,
                  stale >>

\* operator<< of a whole number of at most ten digits under
\* std::setprecision(10): its decimal digits
RECURSIVE FormatNat(_)
FormatNat(v) ==
  IF v < 10 THEN << DigitChars[v + 1] >>
  ELSE FormatNat(v \div 10) \o << DigitChars[(v % 10) + 1] >>

FormatNum(v) == IF v < 0 THEN << "-" >> \o FormatNat(-v) ELSE FormatNat(v)

FormatRow(p) == << FormatNum(p.y) >> \o [j \in 1..Len(p.x) |-> FormatNum(p.x[j])]

\* the text write() puts into the file
FileOf(dim, kernel, h, ss) ==
  << Comment, << >>, Comment, << FormatNum(dim) >>, << >>, Comment,
     << << kernel >> >>, << >>, Comment,
     [j \in 1..ParamDim(kernel) |-> FormatNum(h[j])], << >>, Comment >>
  \o [i \in 1..Len(ss) |-> FormatRow(ss[i])]

\* void write(const char * filename)
Write ==
  /\ status = "live"
  /\ last' = [Call("write") EXCEPT
                !.file = FileOf(input_dim, covf, loghyper, sampleset)]
  /\ UNCHANGED << status, input_dim, covf, loghyper, sampleset, update, alpha, solver,
                  stale >>

\* lines 90-104 as they would be without the rebuild
CacheNeverRebuilt(rebuild) == [solver |-> solver, alpha |-> alpha]

\* lines 90-104 of predict: the factorization and alpha a call works with,
\* rebuilt from the sample set when update is set, the cached ones otherwise
Cache(rebuild) ==
  IF rebuild
  THEN LET sol == Llt(GramLower(sampleset, loghyper))
       IN  [solver |-> sol, alpha |-> SolveInPlace(sol, TargetVec(sampleset))]
  ELSE [solver |-> solver, alpha |-> alpha]

\* lines 112: kstar.dot(alpha); sizes that differ are undefined behaviour
Fstars(kstar, al) == IF Len(al) = Len(kstar) THEN { Dot(kstar, al) } ELSE AnyReal

\* lines 114-117: var, left alone unless compute_variance
Variances(x, cv, kstar, sol) ==
  IF ~cv THEN { "unset" }
  ELSE IF Len(sol.m) = Len(kstar)
       THEN { RSub(RInt(CovGet(loghyper, x, x)), SquaredNormOfSolve(sol, kstar)) }
       ELSE AnyReal

\* number of covf->get calls of one predict over n samples
PredictEvals(n, rebuild, cv) ==
  (IF rebuild THEN GramEvals(n) ELSE 0) + n + (IF cv THEN 1 ELSE 0)

\* history: the call before this predict was a predict of the same arguments
SameCall(x, cv) == last.op = "predict" /\ last.x = x /\ last.cv = cv

\* line 88: the return of 0.0 on an empty sample set
PredictOnEmpty(x, cv) ==
  /\ last' = [Call("predict") EXCEPT !.x = x, !.cv = cv, !.again = SameCall(x, cv),
                                     !.alen = Len(alpha)]
  /\ UNCHANGED << update, alpha, solver, stale >>

\* lines 89-118: the rebuild when update is set, then mean and variance;
\* flag is the value update is left with
PredictOnSamples(x, cv, flag) ==
  \E c \in { Cache(update) } :
  \E kstar \in { Kstar(x, sampleset, loghyper) } :
    /\ update' = flag
    /\ solver' = c.solver
    /\ alpha' = c.alpha
    /\ stale' = (stale /\ ~update)
    /\ \E fstar \in Fstars(kstar, c.alpha), v \in Variances(x, cv, kstar, c.solver) :
         last' = [Call("predict") EXCEPT !.x = x, !.cv = cv, !.ret = fstar,
                    !.var = v, !.rebuilt = update,
                    !.evals = PredictEvals(Len(sampleset), update, cv),
                    !.again = SameCall(x, cv),
                    !.pairs = IF update THEN FillOrder(Len(sampleset)) ELSE << >>,
                    !.targets = IF update THEN TargetVec(sampleset) ELSE << >>,
                    !.alen = Len(alpha)]

\* predict as it would be without the test of line 88
PredictNoEmptyCheck(x, cv) ==
  /\ status = "live"
  /\ PredictOnSamples(x, cv, FALSE)
  /\ UNCHANGED << status, input_dim, covf, loghyper, sampleset >>

\* predict as it would be without line 91, update = 0
PredictKeepsUpdate(x, cv) ==
  /\ status = "live"
  /\ IF Len(sampleset) = 0
     THEN PredictOnEmpty(x, cv)
     ELSE PredictOnSamples(x, cv, update)
  /\ UNCHANGED << status, input_dim, covf, loghyper, sampleset >>

\* double predict(const double x[], double &var, bool compute_variance)
Predict(x, cv) ==
  /\ status = "live"
  /\ IF Len(sampleset) = 0
     THEN PredictOnEmpty(x, cv)
     ELSE PredictOnSamples(x, cv, FALSE)
  /\ UNCHANGED << status, input_dim, covf, loghyper, sampleset >>

\* ------------------------------------------------------------- the engine's callers
\* the arrays a caller hands over: of the length the engine expects, one
\* element shorter and one element longer
ArraysOf(n, vals) ==
  UNION { [1..k -> vals] : k \in { j \in {n - 1, n, n + 1} : j >= 0 } }

Arrays == ArraysOf(input_dim, Coords)

ParamArrays == ArraysOf(ParamDim(covf), HyperVals)

Queries == [1..input_dim -> Coords]

\* the files an engine is loaded from
FileFull ==
  << Comment, << >>, << << "1" >> >>, << << KernelName >> >>,
     << << "0" >>, << "1" >> >>, << << "1" >>, << "0" >> >>,
     << << "1" >>, << "1" >> >> >>

FileNoData == << << << "1" >> >>, << << KernelName >> >>, << << "1" >>, << "0" >> >> >>

FileShortRows ==
  << << << "1" >> >>, << << KernelName >> >>, << << "1" >> >>, << << "1" >> >> >>

FileTruncated == << Comment, << << "1" >> >>, << << KernelName >> >> >>

Files == { FileFull, FileNoData, FileShortRows, FileTruncated }

Init ==
  \/ \E dim \in InputDims, flag \in BOOLEAN : CtorDim(dim, KernelName, flag)
  \/ \E file \in Files : CtorFile(file)

\* one caller, or several behind one mutex: every call runs on its own
Next ==
  \/ (\E x \in Arrays, y \in Targets : AddPattern(x, y)) /\ UNCHANGED inflight
  \/ (\E p \in ParamArrays : SetParams(p)) /\ UNCHANGED inflight
  \/ ClearSampleset /\ UNCHANGED inflight
  \/ GetSamplesetSize /\ UNCHANGED inflight
  \/ GetParamDim /\ UNCHANGED inflight
  \/ Write /\ UNCHANGED inflight
  \/ (\E x \in Queries, cv \in BOOLEAN : Predict(x, cv)) /\ UNCHANGED inflight

Spec == Init /\ [][Next]_vars

\* ------------------------------------------------------------- doubles as text
\* A double that is not a whole number below 10^10 is kept as its decimal
\* expansion: digits d1..dn (d1 and dn not 0) and exp stand for
\* d1.d2...dn * 10^exp, no digits for zero.  Every double has such an
\* expansion, and a decimal of at most 17 digits names at most one double.
Precision == 10

Dec(neg, digits, exp) == [neg |-> neg, digits |-> digits, exp |-> exp]

DZero == Dec(FALSE, << >>, 0)

RECURSIVE StripTrailingZeros(_)
StripTrailingZeros(ds) ==
  IF ds # << >> /\ ds[Len(ds)] = 0 THEN StripTrailingZeros(SubSeq(ds, 1, Len(ds) - 1))
  ELSE ds

RECURSIVE LeadingZeros(_)
LeadingZeros(ds) == IF ds # << >> /\ ds[1] = 0 THEN 1 + LeadingZeros(Tail(ds)) ELSE 0

\* one unit added in the last place, a digit longer when every digit was 9
RECURSIVE IncDigits(_)
IncDigits(ds) ==
  IF ds = << >> THEN << 1 >>
  ELSE IF ds[Len(ds)] < 9
       THEN SubSeq(ds, 1, Len(ds) - 1) \o << ds[Len(ds)] + 1 >>
       ELSE IncDigits(SubSeq(ds, 1, Len(ds) - 1)) \o << 0 >>

\* std::setprecision(10): the value rounded to 10 significant digits, an
\* exact tie to the even digit
RoundDec(d) ==
  IF Len(d.digits) <= Precision THEN d
  ELSE LET head == SubSeq(d.digits, 1, Precision)
           rest == SubSeq(d.digits, Precision + 1, Len(d.digits))
           up   == \/ rest[1] > 5
                   \/ rest[1] = 5 /\ (Len(rest) > 1 \/ head[Precision] % 2 = 1)
           inc  == IF up THEN IncDigits(head) ELSE head
       IN  Dec(d.neg, StripTrailingZeros(SubSeq(inc, 1, Precision)),
               d.exp + (IF Len(inc) > Precision THEN 1 ELSE 0))

DigitStr(ds) == [i \in 1..Len(ds) |-> DigitChars[ds[i] + 1]]

Zeros(n) == [i \in 1..n |-> "0"]

\* the exponent field of the scientific form: a sign and two digits at least
ExpStr(e) ==
  << "e", IF e < 0 THEN "-" ELSE "+" >>
  \o (IF Abs(e) < 10 THEN << "0" >> ELSE << >>) \o FormatNat(Abs(e))

\* outfile << std::setprecision(10) << v for a double v: the default float
\* format, fixed for a decimal exponent in -4..9 and scientific otherwise,
\* trailing zeros dropped
FormatDouble(d) ==
  LET r    == RoundDec(d)
      n    == Len(r.digits)
      sign == IF r.neg THEN << "-" >> ELSE << >>
  IN  IF n = 0 THEN << "0" >>
      ELSE IF r.exp < -4 \/ r.exp >= Precision
           THEN sign \o DigitStr(<< r.digits[1] >>)
                \o (IF n > 1 THEN << "." >> \o DigitStr(Tail(r.digits)) ELSE << >>)
                \o ExpStr(r.exp)
      ELSE IF r.exp < 0
           THEN sign \o << "0", "." >> \o Zeros(-r.exp - 1) \o DigitStr(r.digits)
      ELSE IF n <= r.exp + 1
           THEN sign \o DigitStr(r.digits) \o Zeros(r.exp + 1 - n)
      ELSE sign \o DigitStr(SubSeq(r.digits, 1, r.exp + 1)) \o << "." >>
                \o DigitStr(SubSeq(r.digits, r.exp + 2, n))

\* index of the first c in s, Len(s) + 1 without one
Pos(c, s) ==
  IF \E i \in 1..Len(s) : s[i] = c
  THEN CHOOSE i \in 1..Len(s) : s[i] = c /\ \A k \in 1..(i - 1) : s[k] # c
  ELSE Len(s) + 1

\* the texts operator>> reads as a double, of the forms operator<< writes
IsDouble(tok) ==
  LET body == IF tok # << >> /\ tok[1] = "-" THEN Tail(tok) ELSE tok
      mant == SubSeq(body, 1, Pos("e", body) - 1)
      expo == SubSeq(body, Pos("e", body) + 1, Len(body))
      ip   == SubSeq(mant, 1, Pos(".", mant) - 1)
      fp   == SubSeq(mant, Pos(".", mant) + 1, Len(mant))
  IN  /\ IsNumber(ip)
      /\ Pos(".", mant) <= Len(mant) => IsNumber(fp)
      /\ Pos("e", body) <= Len(body) =>
           /\ Len(expo) > 1
           /\ expo[1] \in { "-", "+" }
           /\ IsNumber(Tail(expo))

\* ss >> v for a double v: the value the text stands for
ParseDouble(tok) ==
  LET neg  == tok[1] = "-"
      body == IF neg THEN Tail(tok) ELSE tok
      mant == SubSeq(body, 1, Pos("e", body) - 1)
      expo == SubSeq(body, Pos("e", body) + 1, Len(body))
      e    == IF expo = << >> THEN 0
              ELSE IF expo[1] = "-" THEN 0 - ParseNum(Tail(expo))
              ELSE ParseNum(Tail(expo))
      ip   == SubSeq(mant, 1, Pos(".", mant) - 1)
      fp   == SubSeq(mant, Pos(".", mant) + 1, Len(mant))
      all  == [i \in 1..(Len(ip) + Len(fp)) |-> DigitVal((ip \o fp)[i])]
      lead == LeadingZeros(all)
      sig  == StripTrailingZeros(SubSeq(all, lead + 1, Len(all)))
  IN  IF sig = << >> THEN DZero ELSE Dec(neg, sig, Len(ip) - 1 - lead + e)

\* the k-th extraction of a double from a line, or what the variable held
ExtractDouble(line, k, vals) ==
  IF k <= Len(line) /\ IsDouble(line[k]) THEN { ParseDouble(line[k]) } ELSE vals

\* ------------------------------------------------------------- persistence
\* An engine whose hyperparameters, inputs and targets are doubles of any
\* number of digits, written by write() and read back by the file constructor.
DNegative == Dec(TRUE, << 2, 5 >>, 0)

\* 2^-15 = 3.0517578125e-05
DSmall == Dec(FALSE, << 3, 0, 5, 1, 7, 5, 7, 8, 1, 2, 5 >>, 0 - 5)

\* 9999999999.5
DLarge == Dec(FALSE, << 9, 9, 9, 9, 9, 9, 9, 9, 9, 9, 5 >>, 9)

FileTargets == { DNegative, DSmall, DLarge }

FileCoords == { DNegative, DLarge }

FileHypers == { DNegative, DSmall }

\* a row as it would be with the target written after the inputs
FormatDoubleRowTargetLast(p) ==
  [j \in 1..Len(p.x) |-> FormatDouble(p.x[j])] \o << FormatDouble(p.y) >>

\* lines 183-188 of write: the target, then the inputs
FormatDoubleRow(p) ==
  << FormatDouble(p.y) >> \o [j \in 1..Len(p.x) |-> FormatDouble(p.x[j])]

\* the text write() puts into the file
FileOfDoubles(dim, kernel, h, ss) ==
  << Comment, << >>, Comment, << FormatNum(dim) >>, << >>, Comment,
     << << kernel >> >>, << >>, Comment,
     [j \in 1..ParamDim(kernel) |-> FormatDouble(h[j])], << >>, Comment >>
  \o [i \in 1..Len(ss) |-> FormatDoubleRow(ss[i])]

\* one pass of the while loop of GaussianProcess(const char *), lines 44-68
LoadDoubleLine(st, line) ==
  IF IsSkipped(line) THEN { st }
  ELSE IF st.stage > 2 THEN
    { [st EXCEPT !.stage = st.stage + 1,
                 !.sampleset = Append(st.sampleset, [x |-> x, y |-> y])] :
        y \in ExtractDouble(line, 1, FileTargets),
        x \in { v \in [1..st.input_dim -> UNION { ExtractDouble(line, 1 + j, FileCoords) :
                                                   j \in 1..st.input_dim }] :
                  \A j \in 1..st.input_dim : v[j] \in ExtractDouble(line, 1 + j, FileCoords) } }
  ELSE IF st.stage = 0 THEN
    { [st EXCEPT !.stage = 1, !.input_dim = d] : d \in Extract(line, 1, InputDims) }
  ELSE IF st.stage = 1 THEN
    { [st EXCEPT !.stage = 2, !.covf = line[1][1],
                 !.loghyper = [j \in 1..ParamDim(line[1][1]) |-> DZero]] }
  ELSE
    { [st EXCEPT !.stage = 3, !.loghyper = SetLoghyper(st.covf, st.loghyper, p)] :
        p \in { v \in [1..ParamDim(st.covf) -> UNION { ExtractDouble(line, j, FileHypers) :
                                                        j \in 1..ParamDim(st.covf) }] :
                  \A j \in 1..ParamDim(st.covf) : v[j] \in ExtractDouble(line, j, FileHypers) } }

RECURSIVE LoadDoubles(_, _)
LoadDoubles(st, lines) ==
  IF lines = << >> THEN { st }
  ELSE UNION { LoadDoubles(t, Tail(lines)) : t \in LoadDoubleLine(st, Head(lines)) }

\* GaussianProcess(size_t, std::string) for this engine
FileInit ==
  \E dim \in InputDims, flag \in BOOLEAN :
    /\ status = "live"
    /\ input_dim = dim
    /\ covf = KernelName
    /\ loghyper = [j \in 1..ParamDim(KernelName) |-> DZero]
    /\ sampleset = << >>
    /\ update = flag
    /\ alpha = << >>
    /\ solver = NoSolver
    /\ last = Call("ctor_dim")
    /\ stale = TRUE
    /\ inflight = Idle

\* add_pattern, lines 132-139
FileAddPattern(x, y) ==
  /\ status = "live"
  /\ Len(sampleset) < MaxSamples
  /\ sampleset' = Append(sampleset, [x |-> x, y |-> y])
  /\ update' = TRUE
  /\ last' = [Call("add_pattern") EXCEPT !.arglen = Len(x)]
  /\ UNCHANGED << status, input_dim, covf, loghyper, alpha, solver, stale, inflight >>

\* set_params, lines 146-152
FileSetParams(p) ==
  /\ status = "live"
  /\ loghyper' = SetLoghyper(covf, loghyper, p)
  /\ update' = TRUE
  /\ last' = [Call("set_params") EXCEPT !.arglen = Len(p)]
  /\ UNCHANGED << status, input_dim, covf, sampleset, alpha, solver, stale, inflight >>

\* write, lines 162-191
FileWrite ==
  /\ status = "live"
  /\ last' = [Call("write") EXCEPT
                !.file = FileOfDoubles(input_dim, covf, loghyper, sampleset)]
  /\ UNCHANGED << status, input_dim, covf, loghyper, sampleset, update, alpha, solver,
                  stale, inflight >>

\* GaussianProcess(const char *) on the file just written, lines 35-77: the
\* engine read from it takes the place of the one that wrote it
FileLoad ==
  /\ status = "live"
  /\ last.op = "write"
  /\ \E st \in LoadDoubles(LoaderStart, last.file) :
       /\ status' = (IF st.stage < 3 THEN "exited" ELSE "live")
       /\ input_dim' = st.input_dim
       /\ covf' = st.covf
       /\ loghyper' = st.loghyper
       /\ sampleset' = st.sampleset
  /\ update' = TRUE
  /\ alpha' = << >>
  /\ solver' = NoSolver
  /\ last' = [Call("ctor_file") EXCEPT !.file = last.file]
  /\ UNCHANGED << stale, inflight >>

FileNext ==
  \/ \E x \in [1..input_dim -> FileCoords], y \in FileTargets : FileAddPattern(x, y)
  \/ \E p \in [1..ParamDim(covf) -> FileHypers] : FileSetParams(p)
  \/ FileWrite
  \/ FileLoad

SpecFile == FileInit /\ [][FileNext]_vars

\* ------------------------------------------------------------- unsynchronized callers
\* One thread calls predict (without the variance), another add_pattern and
\* set_params, on one engine and with no lock: a step is a stretch of a
\* method between two accesses to the members the other thread touches.
\* inflight.ppc and inflight.mpc are the two threads' positions; overlap
\* records that a step was taken while the other thread was inside a call.
PredictStep(f) ==
  inflight' = [f EXCEPT !.overlap = inflight.overlap \/ inflight.mpc # "idle"]

MutatorStep(f) ==
  inflight' = [f EXCEPT !.overlap = inflight.overlap \/ inflight.ppc # "idle"]

\* line 88: the size test
RacePredictSize(x) ==
  /\ status = "live"
  /\ inflight.ppc = "idle"
  /\ IF Len(sampleset) = 0
     THEN /\ PredictStep(inflight)
          /\ last' = [Call("predict") EXCEPT !.x = x]
     ELSE /\ PredictStep([inflight EXCEPT !.ppc = "flag", !.px = x])
          /\ last' = Call("predict_size")
  /\ UNCHANGED << status, input_dim, covf, loghyper, sampleset, update, alpha,
                  solver, stale >>

\* lines 90-93: the test of update, update = 0, K and alpha sized to the set
RacePredictFlag ==
  /\ status = "live"
  /\ inflight.ppc = "flag"
  /\ IF update
     THEN PredictStep([inflight EXCEPT !.ppc = "fill", !.pn = Len(sampleset)])
     ELSE PredictStep([inflight EXCEPT !.ppc = "kstar"])
  /\ update' = FALSE
  /\ last' = Call("predict_flag")
  /\ UNCHANGED << status, input_dim, covf, loghyper, sampleset, alpha, solver, stale >>

\* lines 95-103: the loops run to sampleset.size(); a set that grew since K
\* and alpha were sized makes them write past both, which is undefined
RacePredictFill ==
  /\ status = "live"
  /\ inflight.ppc = "fill"
  /\ last' = Call("predict_fill")
  /\ IF Len(sampleset) = inflight.pn
     THEN \E c \in { Cache(TRUE) } :
            /\ solver' = c.solver
            /\ alpha' = c.alpha
            /\ status' = status
            /\ PredictStep([inflight EXCEPT !.ppc = "kstar"])
     ELSE \/ /\ status' = "crashed"
             /\ PredictStep(inflight)
             /\ UNCHANGED << alpha, solver >>
          \/ /\ status' = status
             /\ alpha' \in [1..inflight.pn -> AnyReal]
             /\ solver' = Llt(GramLower(SubSeq(sampleset, 1, inflight.pn), loghyper))
             /\ PredictStep([inflight EXCEPT !.ppc = "kstar"])
  /\ UNCHANGED << input_dim, covf, loghyper, sampleset, update, stale >>

\* lines 105-110: kstar over the sample set as it is now
RacePredictKstar ==
  /\ status = "live"
  /\ inflight.ppc = "kstar"
  /\ PredictStep([inflight EXCEPT !.ppc = "dot",
                                  !.kstar = Kstar(inflight.px, sampleset, loghyper)])
  /\ last' = Call("predict_kstar")
  /\ UNCHANGED << status, input_dim, covf, loghyper, sampleset, update, alpha,
                  solver, stale >>

\* lines 112-118: the mean and the return
RacePredictDot ==
  /\ status = "live"
  /\ inflight.ppc = "dot"
  /\ \E fstar \in Fstars(inflight.kstar, alpha) :
       last' = [Call("predict") EXCEPT !.x = inflight.px, !.ret = fstar]
  /\ PredictStep([inflight EXCEPT !.ppc = "idle", !.px = << >>, !.pn = 0,
                                  !.kstar = << >>])
  /\ UNCHANGED << status, input_dim, covf, loghyper, sampleset, update, alpha,
                  solver, stale >>

\* lines 134-137 of add_pattern: the push_back
RaceAddPush(x, y) ==
  /\ status = "live"
  /\ inflight.mpc = "idle"
  /\ Len(sampleset) < MaxSamples
  /\ \E p \in NewPattern(x, y, input_dim) : sampleset' = Append(sampleset, p)
  /\ MutatorStep([inflight EXCEPT !.mpc = "add_flag"])
  /\ last' = Call("add_push")
  /\ UNCHANGED << status, input_dim, covf, loghyper, update, alpha, solver, stale >>

\* line 138 as it would be if add_pattern returned without it
RaceAddFlagSkipped ==
  /\ status = "live"
  /\ inflight.mpc = "add_flag"
  /\ MutatorStep([inflight EXCEPT !.mpc = "idle"])
  /\ last' = Call("add_pattern")
  /\ UNCHANGED << status, input_dim, covf, loghyper, sampleset, update, alpha,
                  solver, stale >>

\* line 138 of add_pattern: update = 1
RaceAddFlag ==
  /\ status = "live"
  /\ inflight.mpc = "add_flag"
  /\ update' = TRUE
  /\ MutatorStep([inflight EXCEPT !.mpc = "idle"])
  /\ last' = Call("add_pattern")
  /\ UNCHANGED << status, input_dim, covf, loghyper, sampleset, alpha, solver, stale >>

\* lines 148-150 of set_params: the copy and set_loghyper
RaceSetHyper(p) ==
  /\ status = "live"
  /\ inflight.mpc = "idle"
  /\ \E param \in ReadArray(p, ParamDim(covf), HyperVals) :
       loghyper' = SetLoghyper(covf, loghyper, param)
  /\ MutatorStep([inflight EXCEPT !.mpc = "set_flag"])
  /\ last' = Call("set_hyper")
  /\ UNCHANGED << status, input_dim, covf, sampleset, update, alpha, solver, stale >>

\* line 151 of set_params: update = 1
RaceSetFlag ==
  /\ status = "live"
  /\ inflight.mpc = "set_flag"
  /\ update' = TRUE
  /\ MutatorStep([inflight EXCEPT !.mpc = "idle"])
  /\ last' = Call("set_params")
  /\ UNCHANGED << status, input_dim, covf, loghyper, sampleset, alpha, solver, stale >>

RaceInit == \E dim \in InputDims, flag \in BOOLEAN : CtorDim(dim, KernelName, flag)

RaceNext ==
  \/ \E x \in Queries : RacePredictSize(x)
  \/ RacePredictFlag
  \/ RacePredictFill
  \/ RacePredictKstar
  \/ RacePredictDot
  \/ \E x \in Queries, y \in Targets : RaceAddPush(x, y)
  \/ RaceAddFlag
  \/ \E p \in [1..ParamDim(covf) -> HyperVals] : RaceSetHyper(p)
  \/ RaceSetFlag

SpecRace == RaceInit /\ [][RaceNext]_vars

\* training and prediction with targets that differ from sample to sample
TrainTargets == {1, 2}

TrainInit == \E dim \in InputDims, flag \in BOOLEAN : CtorDim(dim, KernelName, flag)

TrainNext ==
  \/ (\E x \in Arrays, y \in TrainTargets : AddPattern(x, y)) /\ UNCHANGED inflight
  \/ (\E p \in ParamArrays : SetParams(p)) /\ UNCHANGED inflight
  \/ GetSamplesetSize /\ UNCHANGED inflight
  \/ (\E x \in Queries, cv \in BOOLEAN : Predict(x, cv)) /\ UNCHANGED inflight

SpecTrain == TrainInit /\ [][TrainNext]_vars

\* ------------------------------------------------------------- properties
\* what a rebuild over the current sample set and hyperparameters computes
Fresh == Cache(TRUE)

\* C1: whenever update is false, the cached alpha and the cached factorization
\* are the ones computed from the current sample set and hyperparameters.
CleanCacheIsCurrent ==
  (status = "live" /\ ~update) =>
     /\ alpha = Fresh.alpha
     /\ solver.m = Fresh.solver.m
     /\ solver.kf = Fresh.solver.kf

\* C2: the flag changes from set to clear only in a predict that rebuilds, and
\* from clear to set only in add_pattern or set_params; nothing else changes it.
FlagTransitions ==
  [][update' # update =>
       \/ update /\ ~update' /\ last'.op = "predict" /\ last'.rebuilt
       \/ ~update /\ update' /\ last'.op \in {"add_pattern", "set_params"}]_vars

FlagTransitionsWitness ==
  /\ last.op = "predict" /\ last.rebuilt /\ ~update
  /\ Len(sampleset) = MaxSamples

\* C3: an engine just constructed, by either constructor, has update set.
StartsDirty ==
  (status = "live" /\ last.op \in {"ctor_dim", "ctor_file"}) => update

\* C4: set_params with an array of another length than param_dim is refused
\* with InvalidParameter and changes neither the hyperparameters nor the flag.
SetParamsRefusesWrongLength ==
  [][(last'.op = "set_params" /\ last'.arglen # ParamDim(covf)) =>
       /\ last'.raised = "InvalidParameter"
       /\ loghyper' = loghyper
       /\ update' = update]_vars

\* C5: add_pattern with an array of another length than input_dim is refused
\* with InvalidParameter and leaves the sample set as it was.
AddPatternRefusesWrongLength ==
  [][(last'.op = "add_pattern" /\ last'.arglen # input_dim) =>
       /\ last'.raised = "InvalidParameter"
       /\ sampleset' = sampleset]_vars

\* C6: a rebuild whose kernel matrix is not positive-definite hands
\* NumericalError to the caller of predict and leaves update set.
FailedRebuildStaysDirty ==
  (last.op = "predict" /\ last.rebuilt /\ solver.info = "NumericalIssue") =>
     /\ last.raised = "NumericalError"
     /\ update

\* C7: predict on an empty sample set returns 0.0, evaluates no covariance,
\* builds and factorizes nothing and leaves flag, alpha, solver and var alone,
\* whatever the flag and whether or not the variance was asked for.
EmptyPredictIsInert ==
  [][(last'.op = "predict" /\ Len(sampleset) = 0) =>
       /\ last'.ret = RInt(0)
       /\ last'.var = "unset"
       /\ ~last'.rebuilt
       /\ last'.evals = 0
       /\ UNCHANGED << update, alpha, solver >>]_vars

EmptyPredictWitness ==
  /\ last.op = "predict" /\ last.cv
  /\ sampleset = << >>
  /\ update
  /\ alpha # << >>

PredictUsesCurrentData ==
  (last.op = "predict" /\ Len(sampleset) > 0) =>
     /\ ~stale
     /\ alpha = Fresh.alpha
     /\ Len(alpha) = Len(sampleset)
     /\ solver = Fresh.solver
     /\ last.ret = Dot(Kstar(last.x, sampleset, loghyper), Fresh.alpha)

PredictAfterAddWitness ==
  /\ last.op = "predict" /\ last.rebuilt
  /\ Len(sampleset) = MaxSamples
  /\ last.evals >= GramEvals(MaxSamples) + MaxSamples
  /\ solver.info = "Success"

\* C10: predict leaves the sample set and the hyperparameters alone,
\* add_pattern the hyperparameters, set_params the sample set.
FrameConditions ==
  [][/\ last'.op = "predict" =>
          UNCHANGED << sampleset, loghyper, input_dim, covf >>
     /\ last'.op = "add_pattern" => UNCHANGED << loghyper, covf, input_dim >>
     /\ last'.op = "set_params" => UNCHANGED << sampleset, input_dim >>]_vars

FrameWitness ==
  /\ last.op = "set_params"
  /\ Len(sampleset) = MaxSamples
  /\ loghyper # ZeroHyper(covf)

\* C11: no operation of the engine, construction from a file included, ends
\* the process.
NoProcessExit == status # "exited"

\* C13: a rebuild over n samples evaluates the covariance for the n(n+1)/2
\* pairs (row, column) with column <= row, each of them once, and for no
\* entry above the diagonal.
LowerTriangleOnly ==
  (last.op = "predict" /\ last.rebuilt) =>
     LET n == Len(sampleset)
         P == last.pairs
     IN  /\ 2 * Len(P) = n * (n + 1)
         /\ \A k \in 1..Len(P) : P[k][1] \in 1..n /\ P[k][2] \in 1..P[k][1]
         /\ \A k, l \in 1..Len(P) : P[k] = P[l] => k = l
         /\ \A r \in 1..n : \A c \in 1..r : \E k \in 1..Len(P) : P[k] = << r, c >>
         /\ last.evals = Len(P) + n + (IF last.cv THEN 1 ELSE 0)

LowerTriangleWitness ==
  /\ last.op = "predict" /\ last.rebuilt
  /\ Len(sampleset) = MaxSamples
  /\ Len(last.pairs) > MaxSamples

\* C14: add_pattern appends exactly one sample and leaves the earlier ones
\* where and what they were; the size never shrinks under add_pattern,
\* set_params or predict; a rebuild takes the targets in insertion order.
AppendOnly ==
  [][/\ last'.op = "add_pattern" =>
          /\ Len(sampleset') = Len(sampleset) + 1
          /\ SubSeq(sampleset', 1, Len(sampleset)) = sampleset
     /\ last'.op \in {"add_pattern", "set_params", "predict"} =>
          Len(sampleset') >= Len(sampleset)
     /\ last'.op = "get_sampleset_size" => last'.ret = RInt(Len(sampleset))
     /\ (last'.op = "predict" /\ last'.rebuilt) =>
          last'.targets = [i \in 1..Len(sampleset) |-> RInt(sampleset[i].y)]]_vars

AppendOnlyWitness ==
  /\ last.op = "predict" /\ last.rebuilt
  /\ Len(sampleset) = MaxSamples
  /\ sampleset[1].y # sampleset[MaxSamples].y
  /\ sampleset[1].x = sampleset[MaxSamples].x

\* C15: with one sample (x0, y0) and k0 = get(x0, x0) > 0, predict at x0
\* works with alpha = y0 / k0 and kstar = k0 and returns y0.
ExactRecovery ==
  (last.op = "predict" /\ Len(sampleset) = 1 /\ last.x = sampleset[1].x) =>
     LET k0 == CovGet(loghyper, sampleset[1].x, sampleset[1].x)
         y0 == sampleset[1].y
     IN  /\ k0 > 0
         /\ alpha = << Rat(y0, k0) >>
         /\ Kstar(last.x, sampleset, loghyper) = << RInt(k0) >>
         /\ last.ret = RInt(y0)

ExactRecoveryWitness ==
  /\ last.op = "predict" /\ Len(sampleset) = 1 /\ last.x = sampleset[1].x
  /\ CovGet(loghyper, sampleset[1].x, sampleset[1].x) > sampleset[1].y
  /\ sampleset[1].y > 1

\* C17: whenever predict computes the mean, and the variance, alpha and the
\* factorization have the size of the sample set, which is the size of kstar;
\* an alpha left over by clear_sampleset is never used.
SizesAgree ==
  (last.op = "predict" /\ Len(sampleset) > 0) =>
     /\ Len(alpha) = Len(sampleset)
     /\ Len(solver.m) = Len(sampleset)
     /\ solver.info # "Uninitialized"
     /\ Len(Kstar(last.x, sampleset, loghyper)) = Len(alpha)
     /\ (last.alen # Len(sampleset) => last.rebuilt)

SizesAgreeWitness ==
  /\ last.op = "predict" /\ last.cv
  /\ Len(sampleset) > 0
  /\ last.alen > Len(sampleset)

\* C12: a predict whose steps interleave with those of an add_pattern or a
\* set_params can reach the dot product with an alpha that is not the one of
\* the sample set kstar was read from (the witness); as long as every call has
\* run from its first step to its last with the other thread outside a call,
\* alpha, the factorization and kstar at the dot product are those of the
\* current sample set and hyperparameters.
AtomicCallsAreConsistent ==
  (status = "live" /\ inflight.ppc = "dot" /\ ~inflight.overlap) =>
     /\ Len(alpha) = Len(inflight.kstar)
     /\ inflight.kstar = Kstar(inflight.px, sampleset, loghyper)
     /\ alpha = Fresh.alpha
     /\ solver = Fresh.solver

RaceMismatchWitness ==
  /\ status = "live" /\ inflight.ppc = "dot" /\ inflight.overlap
  /\ inflight.mpc = "add_flag"
  /\ ~update
  /\ Len(inflight.kstar) = Len(sampleset)
  /\ Len(alpha) > 0
  /\ Len(alpha) < Len(inflight.kstar)

\* the lines of a file that the loader does not skip
Content(file) == SelectSeq(file, LAMBDA line : ~IsSkipped(line))

RoundPattern(p) == [x |-> [j \in 1..Len(p.x) |-> RoundDec(p.x[j])], y |-> RoundDec(p.y)]

\* C16 as stated: the engine constructed from the file written by an engine
\* has that engine's input_dim, kernel, hyperparameters and samples, and is
\* Dirty.
RoundTripIsExact ==
  [][last'.op = "ctor_file" =>
       /\ input_dim' = input_dim
       /\ covf' = covf
       /\ loghyper' = loghyper
       /\ sampleset' = sampleset
       /\ update']_vars

\* C16, amended: write emits input_dim, the kernel identifier, one line of
\* hyperparameters and one row "target x1 ... xn" per sample in insertion
\* order; the engine constructed from that file has the same input_dim and
\* kernel, and the hyperparameters and samples in the same order with every
\* value rounded to 10 significant decimal digits, and is Dirty.
RoundTripToPrecision ==
  [][/\ last'.op = "write" =>
          LET c == Content(last'.file)
          IN  /\ Len(c) = 3 + Len(sampleset)
              /\ c[1] = << FormatNum(input_dim) >>
              /\ c[2] = << << covf >> >>
              /\ c[3] = [j \in 1..ParamDim(covf) |-> FormatDouble(loghyper[j])]
              /\ \A i \in 1..Len(sampleset) :
                   /\ Len(c[3 + i]) = 1 + input_dim
                   /\ c[3 + i][1] = FormatDouble(sampleset[i].y)
                   /\ \A j \in 1..input_dim :
                        c[3 + i][1 + j] = FormatDouble(sampleset[i].x[j])
     /\ last'.op = "ctor_file" =>
          /\ status' = "live"
          /\ input_dim' = input_dim
          /\ covf' = covf
          /\ loghyper' = [j \in 1..Len(loghyper) |-> RoundDec(loghyper[j])]
          /\ sampleset' = [i \in 1..Len(sampleset) |-> RoundPattern(sampleset[i])]
          /\ update']_vars

RoundTripWitness ==
  /\ last.op = "ctor_file"
  /\ Len(sampleset) = MaxSamples
  /\ sampleset[1].y = RoundDec(DLarge)
  /\ sampleset[MaxSamples].y = RoundDec(DSmall)
  /\ sampleset[1].x # sampleset[MaxSamples].x
  /\ loghyper[1] = DNegative

====
